---- MODULE Spec2Model ----
(***************************************************************************)
(* Model of data_visualization.py ("Ubuntu Data Explorer"): main() and the  *)
(* five functions it drives.  A dataframe is modelled by its columns        *)
(* (name, dtype), its index (row labels) and the set of missing cells.      *)
(* Every program point at which the script waits for the outside world      *)
(* (input(), the file system, read_csv, load_iris, plt.show()) is a value   *)
(* of pc.                                                                   *)
(***************************************************************************)
EXTENDS Naturals, Sequences, FiniteSets

VARIABLES
    pc,          \* program point of main / load_dataset / visualize_data
    choice,      \* load_dataset: the stripped input (line 22)
    exists,      \* load_dataset: what os.path.exists answered (line 26)
    readOk,      \* load_dataset: whether pd.read_csv returned (line 30)
    csvDf,       \* load_dataset: the local df bound at line 30, <<>> while unbound
    caught,      \* load_dataset: exception caught by `except Exception` (line 33)
    ret,         \* load_dataset: value returned, <<>> while none
    df,          \* main: the local df, <<>> while unbound / None
    loaded,      \* history: the dataset load_dataset returned to main
    exc,         \* exception that escaped main ("" while none)
    prompts,     \* history: number of input() calls
    reads,       \* history: number of pd.read_csv calls
    irisCalls,   \* history: number of load_iris_dataset calls
    trace,       \* history: calls and returns of the four stages
    out,         \* stdout: the messages printed, in order
    charts,      \* the figures shown by plt.show(), in order
    lookups,     \* history: every positional column lookup cols[i]
    received,    \* history: the dataframe each stage was called with
    irisMayFail  \* environment: whether load_iris can raise in this run

vars == <<pc, choice, exists, readOk, csvDf, caught, ret, df, loaded, exc, prompts,
          reads, irisCalls, trace, out, charts, lookups, received, irisMayFail>>

---------------------------------------------------------------------------
(* Bounds of the model *)

MaxLen == 2       \* longest raw input line
MaxCols == 3      \* most columns of a user CSV
MaxRows == 2      \* most rows of a user CSV

---------------------------------------------------------------------------
(* Strings and str.strip() *)

Chars == {" ", "f"}

RawInputs == UNION {[1..n -> Chars] : n \in 0..MaxLen}

IsSpace(c) == c = " "

RECURSIVE LStrip(_)
LStrip(s) == IF s # <<>> /\ IsSpace(Head(s)) THEN LStrip(Tail(s)) ELSE s

RECURSIVE RStrip(_)
RStrip(s) ==
    IF s # <<>> /\ IsSpace(s[Len(s)]) THEN RStrip(SubSeq(s, 1, Len(s) - 1)) ELSE s

Strip(s) == RStrip(LStrip(s))

\* `if choice:` -- a str is truthy iff it is non-empty
Truthy(s) == s # <<>>

---------------------------------------------------------------------------
(* Dataframes *)

Dtypes == {"number", "object", "bool"}

ColNames == <<"c1", "c2", "c3", "c4", "c5", "c6">>

None == <<>>
Some(d) == <<d>>
IsNone(o) == o = <<>>
Val(o) == o[1]

RangeOf(s) == {s[i] : i \in 1..Len(s)}

\* DataFrame.empty: any axis of length 0
Empty(d) == Len(d.cols) = 0 \/ Len(d.index) = 0

\* the row labelled r holds a missing value
RowHasNa(d, r) == \E c \in RangeOf(d.cols) : <<r, c.name>> \in d.na

\* DataFrame.dropna(): drop every row holding at least one missing value,
\* keeping the other rows with their labels and in their order
DropNa(d) ==
    LET Complete(r) == ~RowHasNa(d, r)
        kept == SelectSeq(d.index, Complete)
    IN  [cols |-> d.cols, index |-> kept,
         na |-> {cell \in d.na : cell[1] \in RangeOf(kept)}]

RECURSIVE ColsWhere(_, _)
ColsWhere(cols, kinds) ==
    IF cols = <<>> THEN <<>>
    ELSE IF Head(cols).dtype \in kinds
         THEN <<Head(cols).name>> \o ColsWhere(Tail(cols), kinds)
         ELSE ColsWhere(Tail(cols), kinds)

\* df.select_dtypes(include=["number"]).columns
NumCols(d) == ColsWhere(d.cols, {"number"})

\* df.select_dtypes(include=["object", "category"]).columns
CatCols(d) == ColsWhere(d.cols, {"object", "category"})

IndexError == "IndexError"

\* cols[i], zero-based, raising IndexError when out of range
ColAt(cols, i) == IF i < Len(cols) THEN cols[i + 1] ELSE IndexError

Lookup(fn, which, cols, i) == [fn |-> fn, cols |-> which, i |-> i, n |-> Len(cols)]

---------------------------------------------------------------------------
(* The datasets *)

\* what pd.read_csv can return: at least one column, any number of rows,
\* missing cells only outside bool columns (a bool column with a missing
\* cell is read as object)
CsvCols(sch) == [i \in 1..Len(sch) |-> [name |-> ColNames[i], dtype |-> sch[i]]]

\* the dtypes of the columns, left to right
CsvSchemas == UNION {[1..c -> Dtypes] : c \in 1..MaxCols}

\* the columns that can hold a missing cell, left to right
Nullable(sch) ==
    LET NotBool(k) == sch[k] # "bool"
    IN  SelectSeq([k \in 1..Len(sch) |-> k], NotBool)

\* the files explored: any set of rows is incomplete, and the incomplete row
\* r misses its value in the nullable column numbered r modulo their count,
\* so that different rows miss values in different columns
CsvMissing(sch, n) ==
    IF Nullable(sch) = <<>> THEN {{}}
    ELSE {{<<r, ColNames[Nullable(sch)[(r % Len(Nullable(sch))) + 1]]>> : r \in R} :
             R \in SUBSET (0..(n - 1))}

CsvFrame(sch, n, na) ==
    [cols |-> CsvCols(sch), index |-> [i \in 1..n |-> i - 1], na |-> na]

\* load_iris(as_frame=True).frame: 150 rows, four measurements and target
IrisFrame ==
    [cols |-> << [name |-> "sepal length (cm)", dtype |-> "number"],
                 [name |-> "sepal width (cm)", dtype |-> "number"],
                 [name |-> "petal length (cm)", dtype |-> "number"],
                 [name |-> "petal width (cm)", dtype |-> "number"],
                 [name |-> "target", dtype |-> "number"] >>,
     index |-> [i \in 1..150 |-> i - 1],
     na |-> {}]

\* df[name] = values
AddColumn(d, name, dtype) ==
    [d EXCEPT !.cols = Append(@, [name |-> name, dtype |-> dtype])]

RECURSIVE WithoutCol(_, _)
WithoutCol(cols, name) ==
    IF cols = <<>> THEN <<>>
    ELSE IF Head(cols).name = name THEN WithoutCol(Tail(cols), name)
         ELSE <<Head(cols)>> \o WithoutCol(Tail(cols), name)

\* df.drop(columns=name, inplace=True)
DropColumn(d, name) ==
    [d EXCEPT !.cols = WithoutCol(@, name),
              !.na = {cell \in @ : cell[2] # name}]

\* the frame load_iris_dataset returns
IrisDataset == DropColumn(AddColumn(IrisFrame, "species", "object"), "target")

---------------------------------------------------------------------------
(* Events *)

Msg(kind) == <<kind>>

Call(fn) == <<"call", fn>>
Return(fn) == <<"ret", fn>>

Stages == {"basic_analysis", "visualize_data"}

Terminal == {"done", "exited", "crashed"}

---------------------------------------------------------------------------
(* State after construction: nothing has run yet *)

InitProgram ==
    /\ pc = "start"
    /\ choice = <<>>
    /\ exists = None
    /\ readOk = None
    /\ csvDf = None
    /\ caught = ""
    /\ ret = None
    /\ df = None
    /\ loaded = None
    /\ exc = ""
    /\ prompts = 0
    /\ reads = 0
    /\ irisCalls = 0
    /\ trace = <<>>
    /\ out = <<>>
    /\ charts = <<>>
    /\ lookups = {}
    /\ received = [s \in Stages |-> None]

\* the bundled Iris data loads
Init == InitProgram /\ irisMayFail = FALSE

\* load_iris may also raise (a broken scikit-learn installation)
InitIrisFail == InitProgram /\ irisMayFail \in BOOLEAN

IrisOutcomes == IF irisMayFail THEN BOOLEAN ELSE {TRUE}

---------------------------------------------------------------------------
(* load_dataset *)

\* variant of InTry: pd.read_csv called outside the try block
InTry_ReadOutside(site) == site \in {"try_exists", "try_iris"}

\* the program points inside the try block of load_dataset (lines 25-32)
InTry(site) == site \in {"try_exists", "try_iris", "read"}

\* an exception e raised at `site`: caught by `except Exception` when the
\* site is inside the try block, otherwise it leaves load_dataset and main
RaiseAt(site, e) ==
    IF InTry(site)
    THEN pc' = "handler" /\ caught' = e /\ exc' = exc
    ELSE pc' = "crashed" /\ exc' = e /\ caught' = caught

\* main, lines 132-134: greet and call load_dataset
MainStart ==
    /\ pc = "start"
    /\ pc' = "prompt"
    /\ out' = Append(out, Msg("welcome"))
    /\ trace' = Append(trace, Call("load_dataset"))
    /\ UNCHANGED <<choice, exists, readOk, csvDf, caught, ret, df, loaded, exc, prompts,
                   reads, irisCalls, charts, lookups, received, irisMayFail>>

\* lines 21-24: ask for a path, strip it, branch on its truthiness
Prompt ==
    /\ pc = "prompt"
    /\ \E raw \in RawInputs :
          /\ choice' = Strip(raw)
          /\ pc' = IF Truthy(Strip(raw)) THEN "try_exists" ELSE "else_iris"
    /\ prompts' = prompts + 1
    /\ out' = Append(out, Msg("question"))
    /\ UNCHANGED <<exists, readOk, csvDf, caught, ret, df, loaded, exc, reads, irisCalls,
                   trace, charts, lookups, received, irisMayFail>>

\* line 26: os.path.exists(choice)
PathExists ==
    /\ pc = "try_exists"
    /\ \E e \in BOOLEAN :
          /\ exists' = Some(e)
          /\ pc' = IF e THEN "read" ELSE "try_iris"
    /\ UNCHANGED <<choice, readOk, csvDf, caught, ret, df, loaded, exc, prompts, reads,
                   irisCalls, trace, out, charts, lookups, received, irisMayFail>>

\* lines 30-32: pd.read_csv(choice) returns a frame or raises
ReadCsv ==
    /\ pc = "read"
    /\ reads' = reads + 1
    /\ \/ /\ readOk' = Some(FALSE)
          /\ RaiseAt("read", "read")
          /\ UNCHANGED <<csvDf, ret, out, trace>>
       \/ \E sch \in CsvSchemas, n \in 0..MaxRows :
             \E na \in CsvMissing(sch, n) :
                /\ readOk' = Some(TRUE)
                /\ csvDf' = Some(CsvFrame(sch, n, na))
                /\ ret' = csvDf'
                /\ out' = Append(out, Msg("loaded_user"))
                /\ trace' = Append(trace, Return("load_dataset"))
                /\ pc' = "ret_load"
                /\ UNCHANGED <<caught, exc>>
    /\ UNCHANGED <<choice, exists, df, loaded, prompts, irisCalls, charts, lookups,
                   received, irisMayFail>>

\* `return load_iris_dataset()` at `site`, after printing `pre`
\* (load_iris_dataset, lines 39-46, returns the Iris frame or raises)
CallIris(site, pre) ==
    /\ irisCalls' = irisCalls + 1
    /\ \E ok \in IrisOutcomes :
          IF ok
          THEN /\ ret' = Some(IrisDataset)
               /\ out' = out \o pre \o <<Msg("iris_loaded")>>
               /\ trace' = Append(trace, Return("load_dataset"))
               /\ pc' = "ret_load"
               /\ UNCHANGED <<caught, exc>>
          ELSE /\ RaiseAt(site, "iris")
               /\ out' = out \o pre
               /\ UNCHANGED <<ret, trace>>
    /\ UNCHANGED <<choice, exists, readOk, csvDf, df, loaded, prompts, reads, charts,
                   lookups, received, irisMayFail>>

\* lines 27-28: the path does not exist
NotFoundFallback == pc = "try_iris" /\ CallIris("try_iris", <<Msg("not_found")>>)

\* lines 33-35: the except clause
HandleError == pc = "handler" /\ CallIris("handler", <<Msg("error_loading")>>)

\* lines 36-37: nothing was entered
DefaultIris == pc = "else_iris" /\ CallIris("else_iris", <<>>)

---------------------------------------------------------------------------
(* main after load_dataset *)

\* variant of EmptyGuard: only `df is None` is tested
EmptyGuard_NoneOnly(o) == IsNone(o)

\* line 135: df is None or df.empty
EmptyGuard(o) == IsNone(o) \/ Empty(Val(o))

\* variant of MainCheck: main goes from the emptiness test straight to
\* basic_analysis, without calling explore_data
MainCheck_SkipsExplore ==
    /\ pc = "ret_load"
    /\ df' = ret
    /\ loaded' = ret
    /\ IF EmptyGuard(ret)
       THEN out' = Append(out, Msg("no_dataset")) /\ pc' = "exited"
       ELSE out' = out /\ pc' = "describe"
    /\ choice' = <<>>
    /\ exists' = None
    /\ readOk' = None
    /\ csvDf' = None
    /\ caught' = ""
    /\ ret' = None
    /\ UNCHANGED <<exc, prompts, reads, irisCalls, trace, charts, lookups, received,
                   irisMayFail>>

\* lines 134-137: bind df, leave when there is nothing to analyse
MainCheck ==
    /\ pc = "ret_load"
    /\ df' = ret
    /\ loaded' = ret
    /\ IF EmptyGuard(ret)
       THEN out' = Append(out, Msg("no_dataset")) /\ pc' = "exited"
       ELSE out' = out /\ pc' = "explore"
    /\ choice' = <<>>
    /\ exists' = None
    /\ readOk' = None
    /\ csvDf' = None
    /\ caught' = ""
    /\ ret' = None
    /\ UNCHANGED <<exc, prompts, reads, irisCalls, trace, charts, lookups, received,
                   irisMayFail>>

\* variant of Cleaned: explore_data returns the frame it was given
Cleaned_Identity(d) == d

\* explore_data, lines 59-61: what the function returns
Cleaned(d) == DropNa(d)

\* line 139 with explore_data, lines 48-61
ExploreData ==
    /\ pc = "explore"
    /\ out' = out \o <<Msg("overview"), Msg("dtypes"), Msg("missing")>>
    /\ trace' = trace \o <<Call("explore_data"), Return("explore_data")>>
    /\ df' = Some(Cleaned(Val(df)))
    /\ pc' = "describe"
    /\ UNCHANGED <<choice, exists, readOk, csvDf, caught, ret, loaded, exc, prompts, reads,
                   irisCalls, charts, lookups, received, irisMayFail>>

---------------------------------------------------------------------------
(* basic_analysis *)

\* variant of GroupGuard: only the categorical columns are counted
GroupGuard_CatOnly(cat, num) == Len(cat) > 0

\* line 72: len(cat_cols) > 0 and len(num_cols) > 0
GroupGuard(cat, num) == Len(cat) > 0 /\ Len(num) > 0

\* line 140 with basic_analysis, lines 63-81
BasicAnalysis ==
    /\ pc = "describe"
    /\ received' = [received EXCEPT !["basic_analysis"] = df]
    /\ LET cat == CatCols(Val(df))
           num == NumCols(Val(df))
       IN  IF GroupGuard(cat, num)
           THEN /\ lookups' = lookups \cup {Lookup("basic_analysis", "cat", cat, 0)}
                /\ IF ColAt(cat, 0) = IndexError
                   THEN /\ pc' = "crashed"
                        /\ exc' = IndexError
                        /\ out' = Append(out, Msg("summary"))
                        /\ trace' = Append(trace, Call("basic_analysis"))
                   ELSE /\ pc' = "visualize"
                        /\ exc' = exc
                        /\ out' = out \o <<Msg("summary"), <<"grouped", ColAt(cat, 0)>>,
                                           Msg("observation")>>
                        /\ trace' = trace \o <<Call("basic_analysis"),
                                               Return("basic_analysis")>>
           ELSE /\ lookups' = lookups
                /\ pc' = "visualize"
                /\ exc' = exc
                /\ out' = out \o <<Msg("summary"), Msg("no_categorical")>>
                /\ trace' = trace \o <<Call("basic_analysis"), Return("basic_analysis")>>
    /\ UNCHANGED <<choice, exists, readOk, csvDf, caught, ret, df, loaded, prompts, reads,
                   irisCalls, charts, irisMayFail>>

---------------------------------------------------------------------------
(* visualize_data *)

\* variants of EnoughNumeric: the threshold off by one, either way
EnoughNumeric_One(num) == ~(Len(num) < 1)

EnoughNumeric_Three(num) == ~(Len(num) < 3)

\* line 87, negated: the function goes on to plot
EnoughNumeric(num) == ~(Len(num) < 2)

\* line 103: len(cat_cols) > 0
BarGuard(cat) == Len(cat) > 0

\* variant of HueGuard: the hue column is looked up unconditionally
HueGuard_Always(cat) == TRUE

\* lines 123 and 127: cat_cols[0] if len(cat_cols) > 0 else None / "Legend"
HueGuard(cat) == Len(cat) > 0

NoColumn == "-"

\* line 141 with visualize_data, lines 85-89
VisualizeEnter ==
    /\ pc = "visualize"
    /\ received' = [received EXCEPT !["visualize_data"] = df]
    /\ IF EnoughNumeric(NumCols(Val(df)))
       THEN /\ pc' = "plot_line"
            /\ out' = out
            /\ trace' = Append(trace, Call("visualize_data"))
       ELSE /\ pc' = "finish"
            /\ out' = Append(out, Msg("not_enough_numeric"))
            /\ trace' = trace \o <<Call("visualize_data"), Return("visualize_data")>>
    /\ UNCHANGED <<choice, exists, readOk, csvDf, caught, ret, df, loaded, exc, prompts,
                   reads, irisCalls, charts, lookups, irisMayFail>>

\* one chart of visualize_data: the column lookups it makes (`looks`, with the
\* values they yield in `got`), the figure shown when none of them raised
PlotStep(looks, got, figs, nextpc, events) ==
    /\ lookups' = lookups \cup looks
    /\ IF IndexError \in got
       THEN /\ pc' = "crashed"
            /\ exc' = IndexError
            /\ charts' = charts
            /\ trace' = trace
       ELSE /\ pc' = nextpc
            /\ exc' = exc
            /\ charts' = charts \o figs
            /\ trace' = trace \o events
    /\ UNCHANGED <<choice, exists, readOk, csvDf, caught, ret, df, loaded, prompts, reads,
                   irisCalls, out, received, irisMayFail>>

\* lines 91-99: line chart of the first numeric column
PlotLine ==
    /\ pc = "plot_line"
    /\ LET num == NumCols(Val(df))
       IN  PlotStep({Lookup("visualize_data", "num", num, 0)},
                    {ColAt(num, 0)},
                    <<[kind |-> "line", x |-> "index", y |-> ColAt(num, 0),
                       hue |-> NoColumn]>>,
                    "plot_bar", <<>>)

\* lines 101-110: bar chart of the first numeric column per category
PlotBar ==
    /\ pc = "plot_bar"
    /\ LET num == NumCols(Val(df))
           cat == CatCols(Val(df))
       IN  IF BarGuard(cat)
           THEN PlotStep({Lookup("visualize_data", "cat", cat, 0),
                          Lookup("visualize_data", "num", num, 0)},
                         {ColAt(cat, 0), ColAt(num, 0)},
                         <<[kind |-> "bar", x |-> ColAt(cat, 0), y |-> ColAt(num, 0),
                            hue |-> NoColumn]>>,
                         "plot_hist", <<>>)
           ELSE PlotStep({}, {}, <<>>, "plot_hist", <<>>)

\* lines 112-119: histogram of the second numeric column
PlotHist ==
    /\ pc = "plot_hist"
    /\ LET num == NumCols(Val(df))
       IN  PlotStep({Lookup("visualize_data", "num", num, 1)},
                    {ColAt(num, 1)},
                    <<[kind |-> "hist", x |-> ColAt(num, 1), y |-> "Frequency",
                       hue |-> NoColumn]>>,
                    "plot_scatter", <<>>)

\* lines 121-129: scatter plot of the first two numeric columns
PlotScatter ==
    /\ pc = "plot_scatter"
    /\ LET num == NumCols(Val(df))
           cat == CatCols(Val(df))
           base == {Lookup("visualize_data", "num", num, 0),
                    Lookup("visualize_data", "num", num, 1)}
       IN  IF HueGuard(cat)
           THEN PlotStep(base \cup {Lookup("visualize_data", "cat", cat, 0)},
                         {ColAt(num, 0), ColAt(num, 1), ColAt(cat, 0)},
                         <<[kind |-> "scatter", x |-> ColAt(num, 0),
                            y |-> ColAt(num, 1), hue |-> ColAt(cat, 0)]>>,
                         "finish", <<Return("visualize_data")>>)
           ELSE PlotStep(base,
                         {ColAt(num, 0), ColAt(num, 1)},
                         <<[kind |-> "scatter", x |-> ColAt(num, 0),
                            y |-> ColAt(num, 1), hue |-> NoColumn]>>,
                         "finish", <<Return("visualize_data")>>)

\* main, line 143
MainFinish ==
    /\ pc = "finish"
    /\ out' = Append(out, Msg("complete"))
    /\ pc' = "done"
    /\ UNCHANGED <<choice, exists, readOk, csvDf, caught, ret, df, loaded, exc, prompts,
                   reads, irisCalls, trace, charts, lookups, received, irisMayFail>>

---------------------------------------------------------------------------
(* Specifications *)

Next ==
    \/ MainStart
    \/ Prompt
    \/ PathExists
    \/ ReadCsv
    \/ NotFoundFallback
    \/ HandleError
    \/ DefaultIris
    \/ MainCheck
    \/ ExploreData
    \/ BasicAnalysis
    \/ VisualizeEnter
    \/ PlotLine
    \/ PlotBar
    \/ PlotHist
    \/ PlotScatter
    \/ MainFinish

\* the script in an environment whose bundled Iris data loads
Spec == Init /\ [][Next]_vars

\* the same, where load_iris may raise
SpecIrisFail == InitIrisFail /\ [][Next]_vars

\* every call the script waits on (input, read_csv, load_iris, plt.show)
\* eventually returns or raises: the single thread always takes its next step
FairSpec == Spec /\ WF_vars(Next)

---------------------------------------------------------------------------
(* Vocabulary of the properties, computed from the frames themselves *)

IsPrefix(s, t) == Len(s) <= Len(t) /\ s = SubSeq(t, 1, Len(s))

Last(s) == s[Len(s)]

Printed(kind) == Msg(kind) \in RangeOf(out)

NumericAt(d) == {i \in 1..Len(d.cols) : d.cols[i].dtype = "number"}

CategoricalAt(d) == {i \in 1..Len(d.cols) : d.cols[i].dtype \in {"object", "category"}}

FirstCategorical(d) ==
    d.cols[CHOOSE i \in CategoricalAt(d) : \A j \in CategoricalAt(d) : i <= j].name

Kinds(figs) == [i \in 1..Len(figs) |-> figs[i].kind]

\* the labels of the rows of d without a missing value in any column
CompleteRows(d) ==
    {r \in RangeOf(d.index) : \A i \in 1..Len(d.cols) : <<r, d.cols[i].name>> \notin d.na}

\* position of label r in the index of d
PosIn(d, r) == CHOOSE i \in 1..Len(d.index) : d.index[i] = r

FullTrace ==
    << Call("load_dataset"), Return("load_dataset"),
       Call("explore_data"), Return("explore_data"),
       Call("basic_analysis"), Return("basic_analysis"),
       Call("visualize_data"), Return("visualize_data") >>

AllCharts == <<"line", "bar", "hist", "scatter">>

ChartsWithoutBar == <<"line", "hist", "scatter">>

---------------------------------------------------------------------------
(* Properties *)

\* C1: when load_dataset returns, it returns the frame read from the user's
\* file if and only if the stripped input is non-empty, the path exists and
\* read_csv returned; in every other case it returns the Iris dataset; it
\* always returns, and the error raised by read_csv never reaches the caller.
C1_LoadDataset ==
    /\ exc # "read"
    /\ pc = "crashed" => Return("load_dataset") \in RangeOf(trace)
    /\ pc = "ret_load" =>
          LET user == Truthy(choice) /\ exists = Some(TRUE) /\ readOk = Some(TRUE)
          IN  /\ (csvDf # None /\ ret = csvDf) <=> user
              /\ ~user => ret = Some(IrisDataset)
              /\ ret # None

\* C1 witness: read_csv raised and load_dataset returned the Iris dataset
C1_Witness ==
    /\ pc = "ret_load"
    /\ readOk = Some(FALSE)
    /\ caught = "read"
    /\ ret = Some(IrisDataset)

\* C2: the stages run in the order load_dataset, explore_data,
\* basic_analysis, visualize_data, each called after the previous one has
\* returned and none called twice: the calls and returns made so far are
\* always a prefix of that one sequence, and a run that reaches the end made
\* all of them.
C2_StageOrder ==
    /\ IsPrefix(trace, FullTrace)
    /\ pc = "done" => trace = FullTrace
    /\ pc = "exited" => trace = SubSeq(FullTrace, 1, 2)

\* C2 witness: a run that went through all four stages
C2_Witness == pc = "done" /\ trace = FullTrace /\ Len(charts) = 4

\* C3: visualize_data shows no chart with fewer than 2 numeric columns;
\* with at least 2 it shows line, histogram and scatter, and the bar chart
\* iff there is a categorical column, in the order line, bar, histogram,
\* scatter; the number of charts of a run is 0, 3 or 4.
C3_FixedCharts ==
    /\ received["visualize_data"] = None => charts = <<>>
    /\ received["visualize_data"] # None =>
          LET d == Val(received["visualize_data"])
              all == IF CategoricalAt(d) # {} THEN AllCharts ELSE ChartsWithoutBar
              returned == pc \in {"finish", "done"}
          IN  /\ Cardinality(NumericAt(d)) < 2 => charts = <<>>
              /\ IsPrefix(Kinds(charts), all)
              /\ returned /\ Cardinality(NumericAt(d)) >= 2 => Kinds(charts) = all
              /\ returned => Len(charts) \in {0, 3, 4}

\* C3 witness: a finished run with two numeric and no categorical column,
\* which showed three charts
C3_Witness ==
    /\ pc = "done"
    /\ Kinds(charts) = ChartsWithoutBar
    /\ CategoricalAt(Val(received["visualize_data"])) = {}

\* C4: in any run the user is prompted once, the file is read at most once
\* and load_iris_dataset is called at most once, also when it raises.
C4_SingleFallback ==
    /\ prompts <= 1
    /\ reads <= 1
    /\ irisCalls <= 1
    /\ pc \in Terminal => prompts = 1

\* C5: when the loaded dataset has no rows (or is None), main prints
\* 'No dataset available' and stops: no later stage is called and
\* 'Analysis complete' is not printed.
C5_EmptyExits ==
    (pc \notin {"start", "prompt", "try_exists", "try_iris", "read", "handler",
                "else_iris", "ret_load", "crashed"}
        /\ (loaded = None \/ Len(Val(loaded).index) = 0)) =>
       /\ pc = "exited"
       /\ Last(out) = Msg("no_dataset")
       /\ trace = <<Call("load_dataset"), Return("load_dataset")>>
       /\ \A s \in Stages : received[s] = None
       /\ charts = <<>>
       /\ ~Printed("complete")

\* C5 witness: the user's file held a header and no rows
C5_Witness ==
    /\ pc = "exited"
    /\ loaded # None
    /\ Len(Val(loaded).index) = 0
    /\ Len(Val(loaded).cols) > 0

\* C6: the frame basic_analysis and visualize_data are called with has the
\* columns of the loaded one and exactly its rows without a missing value,
\* in their original order; no row it holds has a missing value.
C6_CleanedHandedOn ==
    \A s \in Stages :
       received[s] # None =>
          LET got == Val(received[s])
              src == Val(loaded)
          IN  /\ got.cols = src.cols
              /\ RangeOf(got.index) = CompleteRows(src)
              /\ Len(got.index) = Cardinality(CompleteRows(src))
              /\ \A i, j \in 1..Len(got.index) :
                    i < j => PosIn(src, got.index[i]) < PosIn(src, got.index[j])
              /\ CompleteRows(got) = RangeOf(got.index)
              /\ got.na = {}

\* C6 witness: a file of two rows, one of them incomplete, reached the plots
C6_Witness ==
    /\ received["visualize_data"] # None
    /\ Len(Val(loaded).index) = 2
    /\ Len(Val(received["visualize_data"]).index) = 1
    /\ Val(loaded).na # {}

\* C7: basic_analysis always prints the summary; it prints the grouped means,
\* grouped by the first categorical column, iff the frame has a categorical
\* and a numeric column, and the 'No categorical column' notice otherwise:
\* exactly one of the two.
C7_GroupingOrNotice ==
    /\ received["basic_analysis"] = None =>
          ~Printed("summary") /\ ~Printed("no_categorical") /\ ~Printed("observation")
    /\ received["basic_analysis"] # None =>
          LET d == Val(received["basic_analysis"])
              groups == CategoricalAt(d) # {} /\ NumericAt(d) # {}
              grouped == {m \in RangeOf(out) : m[1] = "grouped"}
          IN  /\ Printed("summary")
              /\ groups => grouped = {<<"grouped", FirstCategorical(d)>>}
              /\ groups => ~Printed("no_categorical")
              /\ ~groups => grouped = {} /\ Printed("no_categorical")

\* C7 witness: a frame with a categorical and no numeric column got the notice
C7_Witness ==
    /\ received["basic_analysis"] # None
    /\ CategoricalAt(Val(received["basic_analysis"])) # {}
    /\ NumericAt(Val(received["basic_analysis"])) = {}
    /\ Printed("no_categorical")

\* C8: every run ends, either after 'No dataset available' or after
\* 'Analysis complete', and in no other way; 'Analysis complete' is printed
\* iff the loaded dataset was non-empty, also when no chart was shown.
C8_Terminates ==
    /\ <>(pc \in {"exited", "done"})
    /\ [](pc \in {"exited", "done"} => ~ENABLED Next)
    /\ [](pc \notin {"exited", "done"} => ENABLED Next)
    /\ [](pc = "exited" => Last(out) = Msg("no_dataset") /\ ~Printed("complete"))
    /\ [](pc = "done" => Last(out) = Msg("complete") /\ ~Printed("no_dataset"))
    /\ [](Printed("complete") => pc = "done")
    /\ [](pc \in {"exited", "done"} =>
             (Printed("complete") <=> (loaded # None /\ ~Empty(Val(loaded)))))

\* C8 witness: a run that printed 'Analysis complete' without showing a chart
C8_Witness ==
    /\ pc = "done"
    /\ Printed("complete")
    /\ Printed("not_enough_numeric")
    /\ charts = <<>>

\* C9: basic_analysis and visualize_data are never called with a frame of
\* zero rows, also when every row of the loaded dataset has a missing value.
C9_NeverZeroRows ==
    \A s \in Stages : received[s] # None => Len(Val(received[s]).index) >= 1

\* C10: no column lookup is out of range: cols[i] is evaluated only when
\* cols has more than i entries, whatever the numbers of numeric and
\* categorical columns, so no IndexError is raised.
C10_LookupsInRange ==
    /\ \A l \in lookups : l.i < l.n
    /\ exc # IndexError

\* C10 witness: the second of exactly two numeric columns was looked up in a
\* frame without a categorical column
C10_Witness ==
    /\ pc = "done"
    /\ [fn |-> "visualize_data", cols |-> "num", i |-> 1, n |-> 2] \in lookups
    /\ \A l \in lookups : l.cols # "cat"

====
